---------------------------- MODULE Spec2Model ----------------------------
(***************************************************************************)
(* A model of the Serializable crate (src/src/serializable.rs) and of the  *)
(* code its derive macro generates (src/serializable_derive/src/lib.rs).   *)
(*                                                                         *)
(* Bytes are the integers 0..255.  An integer of W bytes is modelled by    *)
(* its 16-bit limbs, least significant limb first (a one-byte integer is   *)
(* one limb below 256), so that the widest types (u64, u128) stay inside   *)
(* the checker's integers.  A signed integer is a sign and a magnitude;    *)
(* the cast to the unsigned type of the same width is computed.  A float   *)
(* is modelled by its IEEE-754 bit pattern (f32::to_bits).  A String is    *)
(* the sequence of its UTF-8 bytes.                                        *)
(*                                                                         *)
(* State: ty, the type a caller works on; val, the value it serialized;    *)
(* bytes, the encoding; data, the window it handed to deserialize; res,    *)
(* what deserialize returned; pc, how far the caller is; build, how the    *)
(* crate was built (overflow checks on or off) and what the uninitialized  *)
(* memory of [T; L]::deserialize happens to hold.                          *)
(***************************************************************************)
EXTENDS Integers, Sequences, FiniteSets, TLC

VARIABLES ty, val, bytes, data, res, pc, build

vars == <<ty, val, bytes, data, res, pc, build>>

-----------------------------------------------------------------------------
(* Bounds of the model. *)

\* Longest raw byte window handed to deserialize.
MaxWin == 5

\* Longest run of trailing bytes appended to an encoding.
MaxTail == 2

-----------------------------------------------------------------------------
(* Machine integers. *)

Byte == 0..255

LimbBase == 256 * 256

\* Number of limbs of a W-byte integer.
Limbs(W) == IF W = 1 THEN 1 ELSE W \div 2

\* Modulus of one limb of a W-byte integer.
LimbMod(W) == IF W = 1 THEN 256 ELSE LimbBase

Zero(W) == [j \in 1..Limbs(W) |-> 0]

\* The byte of weight 256^k of the limbs v.
ByteOf(v, k) == (v[(k \div 2) + 1] \div (IF k % 2 = 0 THEN 1 ELSE 256)) % 256

\* Mutation of to_be_bytes: least significant byte first.
to_be_bytes_le(v, W) == [i \in 1..W |-> ByteOf(v, i - 1)]

\* uN::to_be_bytes: most significant byte first.
to_be_bytes(v, W) == [i \in 1..W |-> ByteOf(v, W - i)]

\* uN::from_be_bytes([data[0], .., data[W-1]]).
from_be_bytes(b, W) ==
    IF W = 1 THEN <<b[1]>>
    ELSE [j \in 1..(W \div 2) |-> b[W - 2 * j + 2] + 256 * b[W - 2 * j + 1]]

\* x + y on W-byte integers: the limbs of the sum modulo 2^(8W), and the
\* carry out of the top limb.
RECURSIVE AddFrom(_, _, _, _, _)
AddFrom(x, y, W, j, c) ==
    IF j > Limbs(W) THEN [sum |-> <<>>, carry |-> c]
    ELSE LET s    == x[j] + y[j] + c
             rest == AddFrom(x, y, W, j + 1, s \div LimbMod(W))
         IN  [sum |-> <<s % LimbMod(W)>> \o rest.sum, carry |-> rest.carry]

Add(x, y, W) == AddFrom(x, y, W, 1, 0)

\* `n as uN` for a usize n below 2^31: truncation to W bytes.
AsLimbs(n, W) ==
    [j \in 1..Limbs(W) |->
        IF j = 1 THEN n % LimbMod(W)
        ELSE IF j = 2 THEN (n \div LimbBase) % LimbBase
        ELSE 0]

\* Whether the limbs x denote a number below 2^31, and that number.
IsSmall(x) ==
    /\ \A j \in 3..Len(x) : x[j] = 0
    /\ Len(x) >= 2 => x[2] < 128 * 256

AsNat(x) == x[1] + (IF Len(x) >= 2 THEN LimbBase * x[2] ELSE 0)

\* n < x and n <= x for a usize n below 2^31 and limbs x.
NatLt(n, x) == ~IsSmall(x) \/ n < AsNat(x)

\* The top bit of a W-byte integer.
TopBit(x, W) == x[Limbs(W)] >= LimbMod(W) \div 2

\* -x modulo 2^(8W): every limb complemented, plus one.
Neg(x, W) ==
    Add([j \in 1..Limbs(W) |-> LimbMod(W) - 1 - x[j]], AsLimbs(1, W), W).sum

\* `v as uN` for a signed v = [neg, mag] of the same width (two's complement).
AsUnsigned(v, W) == IF v.neg THEN Neg(v.mag, W) ELSE v.mag

\* `u as iN` for an unsigned u of the same width.
AsSigned(u, W) ==
    IF TopBit(u, W) THEN [neg |-> TRUE, mag |-> Neg(u, W)]
    ELSE [neg |-> FALSE, mag |-> u]


-----------------------------------------------------------------------------
(* Type descriptors: the shape the trait impl, or the derive macro, sees.  *)

Ty(k, n, a) == [kind |-> k, n |-> n, shape |-> "", names |-> <<>>, args |-> a]

Prim(k) == Ty(k, 0, <<>>)

VecOf(T) == Ty("Vec", 0, <<T>>)

ArrayOf(T, L) == Ty("Array", L, <<T>>)

OptionOf(T) == Ty("Option", 0, <<T>>)

\* syn::Fields: Named (declared names), Unnamed (positional), Unit.
Named(ns, ts) ==
    [kind |-> "Fields", n |-> 0, shape |-> "Named", names |-> ns, args |-> ts]

Unnamed(ts) ==
    [kind |-> "Fields", n |-> 0, shape |-> "Unnamed", names |-> <<>>, args |-> ts]

Unit == [kind |-> "Fields", n |-> 0, shape |-> "Unit", names |-> <<>>, args |-> <<>>]

\* syn::Data::Struct and syn::Data::Enum.
StructOf(f) == [f EXCEPT !.kind = "Struct"]

EnumOf(vs) ==
    [kind |-> "Enum", n |-> 0, shape |-> "", names |-> <<>>, args |-> vs]

Unsigned == {"u8", "u16", "u32", "u64", "u128"}

Signed == {"i8", "i16", "i32", "i64", "i128"}

Float == {"f32", "f64"}

\* The fixed width, in bytes, of an integer or float type.
Width(k) ==
    CASE k \in {"u8", "i8"} -> 1
      [] k \in {"u16", "i16"} -> 2
      [] k \in {"u32", "i32", "f32"} -> 4
      [] k \in {"u64", "i64", "f64"} -> 8
      [] k \in {"u128", "i128"} -> 16

-----------------------------------------------------------------------------
(* Outcomes.  serialize returns bytes or panics; deserialize returns       *)
(* Ok((value, read)), Err(message), panics, or, where the code has         *)
(* undefined behaviour, faults.  calls counts the constituent decoders the *)
(* outermost decoder invoked.                                              *)

Bytes(b) == [tag |-> "Ok", out |-> b, msg |-> ""]

SerPanic(m) == [tag |-> "Panic", out |-> <<>>, msg |-> m]

Ok(v, n, c) == [tag |-> "Ok", val |-> v, read |-> n, msg |-> "", calls |-> c]

Err(m, c) == [tag |-> "Err", val |-> <<>>, read |-> 0, msg |-> m, calls |-> c]

Panic(m, c) == [tag |-> "Panic", val |-> <<>>, read |-> 0, msg |-> m, calls |-> c]

Fault(c) ==
    [tag |-> "Fault", val |-> <<>>, read |-> 0,
     msg |-> "drop of an uninitialized value", calls |-> c]

InvalidDataLength == "Invalid data length"

InvalidDataSize == "Invalid data size"

InvalidAddressType == "Invalid address type"

InvalidUtf8 == "Invalid utf8 string format"

InvalidBoolValue == "Invalid bool value"

InvalidTime == "Invalid time"

InvalidOptionType == "Invalid option type"

InvalidVariantIndex == "Invalid variant index"

AddOverflow == "attempt to add with overflow"

\* &data[from..] with from > data.len().
SliceStart == "range start index out of range for slice"

\* &data[from..to] with from > to.
SliceOrder == "slice index starts after it ends"

BeforeEpoch == "System date earlier than UNIX_EPOCH"

\* &data[from..]: panics when from > data.len().
SliceFrom(d, from) == SubSeq(d, from + 1, Len(d))

-----------------------------------------------------------------------------
(* Primitive codecs. *)

\* impl Serializable for u8 .. u128: to_be_bytes.
uint_serialize(v, W) == Bytes(to_be_bytes(v, W))

uint_deserialize(d, W) ==
    IF Len(d) < W THEN Err(InvalidDataLength, 0)
    ELSE Ok(from_be_bytes(SubSeq(d, 1, W), W), W, 0)

\* impl Serializable for i8 .. i128.
int_serialize(v, W) == Bytes(to_be_bytes(AsUnsigned(v, W), W))

int_deserialize(d, W) ==
    IF Len(d) < W THEN Err(InvalidDataLength, 0)
    ELSE Ok(AsSigned(from_be_bytes(SubSeq(d, 1, W), W), W), W, 0)

\* impl Serializable for f32, f64: the bit pattern, big-endian.
float_serialize(v, W) == Bytes(to_be_bytes(v, W))

float_deserialize(d, W) ==
    IF Len(d) < W THEN Err(InvalidDataLength, 0)
    ELSE Ok(from_be_bytes(SubSeq(d, 1, W), W), W, 0)

\* impl Serializable for bool.
bool_serialize(v) == IF v THEN Bytes(<<1>>) ELSE Bytes(<<0>>)

\* Mutation of bool_deserialize: every byte but 0 is taken for true.
bool_deserialize_lax(d) ==
    IF Len(d) < 1 THEN Err(InvalidDataLength, 0)
    ELSE IF d[1] = 0 THEN Ok(FALSE, 1, 0)
    ELSE Ok(TRUE, 1, 0)

bool_deserialize(d) ==
    IF Len(d) < 1 THEN Err(InvalidDataLength, 0)
    ELSE IF d[1] = 0 THEN Ok(FALSE, 1, 0)
    ELSE IF d[1] = 1 THEN Ok(TRUE, 1, 0)
    ELSE Err(InvalidBoolValue, 0)

-----------------------------------------------------------------------------
(* String. *)

Cont(b) == b >= 128 /\ b <= 191

\* String::from_utf8 accepts exactly the well-formed UTF-8 byte sequences.
RECURSIVE from_utf8(_)
from_utf8(v) ==
    IF v = <<>> THEN TRUE
    ELSE LET b == v[1]
             n == Len(v)
         IN  IF b <= 127 THEN from_utf8(SubSeq(v, 2, n))
             ELSE IF b >= 194 /\ b <= 223
                  THEN n >= 2 /\ Cont(v[2]) /\ from_utf8(SubSeq(v, 3, n))
             ELSE IF b >= 224 /\ b <= 239
                  THEN /\ n >= 3
                       /\ Cont(v[2])
                       /\ b = 224 => v[2] >= 160
                       /\ b = 237 => v[2] <= 159
                       /\ Cont(v[3])
                       /\ from_utf8(SubSeq(v, 4, n))
             ELSE IF b >= 240 /\ b <= 244
                  THEN /\ n >= 4
                       /\ Cont(v[2])
                       /\ b = 240 => v[2] >= 144
                       /\ b = 244 => v[2] <= 143
                       /\ Cont(v[3])
                       /\ Cont(v[4])
                       /\ from_utf8(SubSeq(v, 5, n))
             ELSE FALSE

\* <String as Serializable>::serialize: (self.len() as u32), then the bytes.
string_serialize(v) == Bytes(to_be_bytes(AsLimbs(Len(v), 4), 4) \o v)

\* <String as Serializable>::deserialize.  len + 4 is a u32 addition: with
\* overflow checks it panics on overflow, without them it wraps.
string_deserialize(d, b) ==
    IF Len(d) < 4 THEN Err(InvalidDataLength, 0)
    ELSE LET len == from_be_bytes(SubSeq(d, 1, 4), 4)
             s   == Add(len, AsLimbs(4, 4), 4)
             end == s.sum
         IN  IF s.carry = 1 /\ b.overflow_checks THEN Panic(AddOverflow, 0)
             ELSE IF NatLt(Len(d), end) THEN Err(InvalidDataLength, 0)
             ELSE IF 4 > AsNat(end) THEN Panic(SliceOrder, 0)
             ELSE LET vec == SubSeq(d, 5, AsNat(end))
                  IN  IF from_utf8(vec) THEN Ok(vec, AsNat(end), 0)
                      ELSE Err(InvalidUtf8, 0)

-----------------------------------------------------------------------------
(* std::net::SocketAddr.  A V4 address is its 4 octets and a port; a V6    *)
(* address is its 16 octets, a port, a flowinfo and a scope_id.            *)

\* Ipv6Addr::new(a, .., h): the octets of the eight segments, in order.
Ipv6AddrNew(segs) ==
    [i \in 1..16 |-> to_be_bytes(segs[(i + 1) \div 2], 2)[2 - (i % 2)]]

socketaddr_serialize(v) ==
    IF v.fam = "V4"
    THEN Bytes(<<0>> \o v.ip \o to_be_bytes(v.port, 2))
    ELSE Bytes(<<1>> \o v.ip \o to_be_bytes(v.port, 2))

\* Mutation of socketaddr_deserialize: every family byte but 0 is taken
\* for a V6 address.
socketaddr_deserialize_lax(d) ==
    IF Len(d) < 1 THEN Err(InvalidDataLength, 0)
    ELSE IF d[1] = 0
         THEN IF Len(d) < 7 THEN Err(InvalidDataLength, 0)
              ELSE Ok([fam |-> "V4", ip |-> SubSeq(d, 2, 5),
                       port |-> from_be_bytes(SubSeq(d, 6, 7), 2),
                       flowinfo |-> 0, scope_id |-> 0], 7, 0)
    ELSE IF Len(d) < 19 THEN Err(InvalidDataLength, 0)
    ELSE Ok([fam |-> "V6",
             ip |-> Ipv6AddrNew([k \in 1..8 |->
                        from_be_bytes(SubSeq(d, 2 * k, 2 * k + 1), 2)]),
             port |-> from_be_bytes(SubSeq(d, 18, 19), 2),
             flowinfo |-> 0, scope_id |-> 0], 19, 0)

\* <std::net::SocketAddr as Serializable>::deserialize.
socketaddr_deserialize(d) ==
    IF Len(d) < 1 THEN Err(InvalidDataLength, 0)
    ELSE IF d[1] = 0
         THEN IF Len(d) < 7 THEN Err(InvalidDataLength, 0)
              ELSE Ok([fam |-> "V4", ip |-> SubSeq(d, 2, 5),
                       port |-> from_be_bytes(SubSeq(d, 6, 7), 2),
                       flowinfo |-> 0, scope_id |-> 0], 7, 0)
    ELSE IF d[1] = 1
         THEN IF Len(d) < 19 THEN Err(InvalidDataLength, 0)
              ELSE Ok([fam |-> "V6",
                       ip |-> Ipv6AddrNew([k \in 1..8 |->
                                  from_be_bytes(SubSeq(d, 2 * k, 2 * k + 1), 2)]),
                       port |-> from_be_bytes(SubSeq(d, 18, 19), 2),
                       flowinfo |-> 0, scope_id |-> 0], 19, 0)
    ELSE Err(InvalidAddressType, 0)

-----------------------------------------------------------------------------
(* std::time::SystemTime: whole seconds relative to UNIX_EPOCH (a signed   *)
(* 64-bit count, as on Unix) and the nanoseconds within the second.        *)

\* self.duration_since(UNIX_EPOCH).expect(..), then as_secs().serialize().
systemtime_serialize(v) ==
    IF v.secs.neg THEN SerPanic(BeforeEpoch)
    ELSE uint_serialize(v.secs.mag, 8)

\* UNIX_EPOCH.checked_add(Duration::from_secs(secs)) is None when secs does
\* not fit the signed 64-bit count.
systemtime_deserialize(d) ==
    LET r == uint_deserialize(d, 8)
    IN  IF r.tag # "Ok" THEN [r EXCEPT !.calls = 1]
        ELSE IF TopBit(r.val, 8) THEN Err(InvalidTime, 1)
        ELSE Ok([secs |-> [neg |-> FALSE, mag |-> r.val], nanos |-> 0], r.read, 1)

-----------------------------------------------------------------------------
(* The derive macro: field names, bindings and constructors. *)

\* format!("f{}", i) for the positional fields.
OrdinalName(i) == <<"f0", "f1", "f2", "f3", "f4", "f5">>[i + 1]

get_field_names(fields) ==
    CASE fields.shape = "Named" -> fields.names
      [] fields.shape = "Unnamed" ->
            [i \in 1..Len(fields.args) |-> OrdinalName(i - 1)]
      [] fields.shape = "Unit" -> <<>>

get_field_types(fields) ==
    CASE fields.shape = "Named" -> fields.args
      [] fields.shape = "Unnamed" -> fields.args
      [] fields.shape = "Unit" -> <<>>

NoBinds == [x \in {} |-> x]

\* The pattern Self::Name{a, b} or Self::Name(f0, f1): binds each field name
\* to the field of v.
variant_names_match(fields, v) ==
    LET field_names == get_field_names(fields)
    IN  CASE fields.shape = "Named" ->
               [x \in {field_names[i] : i \in 1..Len(field_names)} |-> v[x]]
          [] fields.shape = "Unnamed" ->
               [x \in {field_names[i] : i \in 1..Len(field_names)} |->
                   v[CHOOSE i \in 1..Len(field_names) : field_names[i] = x]]
          [] fields.shape = "Unit" -> NoBinds

\* Self { a, b }, Self(f0, f1) or Self, from the bound field names.
build_constructor(fields, binds) ==
    LET field_names == get_field_names(fields)
    IN  CASE fields.shape = "Named" ->
               [x \in {field_names[i] : i \in 1..Len(field_names)} |-> binds[x]]
          [] fields.shape = "Unnamed" ->
               [i \in 1..Len(field_names) |-> binds[field_names[i]]]
          [] fields.shape = "Unit" -> <<>>

\* The expression each generated bytes.extend(..) serializes: self.name or
\* self.0 with prepend_self, the bound name without.
FieldExpr(fields, prepend_self, self, i) ==
    CASE fields.shape = "Named" -> self[get_field_names(fields)[i]]
      [] fields.shape = "Unnamed" ->
            IF prepend_self THEN self[i]
            ELSE self[get_field_names(fields)[i]]

-----------------------------------------------------------------------------
(* serialize, by type. *)

RECURSIVE serialize(_, _)
RECURSIVE extend_each(_, _, _)
RECURSIVE build_serialize_body(_, _, _, _, _)

\* for item in self { ret.extend(item.serialize()) }
extend_each(T, items, ret) ==
    IF items = <<>> THEN Bytes(ret)
    ELSE LET r == serialize(T, Head(items))
         IN  IF r.tag # "Ok" THEN r
             ELSE extend_each(T, Tail(items), ret \o r.out)

\* impl Serializable for Vec<T>: (self.len() as u32), then the items.
vec_serialize(T, v) ==
    extend_each(T, v, to_be_bytes(AsLimbs(Len(v), 4), 4))

\* impl Serializable for [T; L]: the items, no count.
array_serialize(T, v) == extend_each(T, v, <<>>)

\* impl Serializable for Option<T>: a value is <<>> (None) or <<item>>.
option_serialize(T, v) ==
    IF v # <<>>
    THEN LET r == serialize(T, v[1])
         IN  IF r.tag # "Ok" THEN r ELSE Bytes(<<1>> \o r.out)
    ELSE Bytes(<<0>>)

\* #(bytes.extend(Serializable::serialize(..));)* from field i on.
build_serialize_body(fields, prepend_self, self, i, bytes_) ==
    IF fields.shape = "Unit" \/ i > Len(get_field_names(fields))
    THEN Bytes(bytes_)
    ELSE LET r == serialize(get_field_types(fields)[i],
                            FieldExpr(fields, prepend_self, self, i))
         IN  IF r.tag # "Ok" THEN r
             ELSE build_serialize_body(fields, prepend_self, self, i + 1,
                                       bytes_ \o r.out)

\* Mutation of struct_serialize: a leading field count.
struct_serialize_counted(T, v) ==
    build_serialize_body(T, TRUE, v, 1, <<Len(get_field_names(T))>>)

\* The generated serialize of a struct.
struct_serialize(T, v) == build_serialize_body(T, TRUE, v, 1, <<>>)

\* Mutation of enum_serialize: the discriminant counts from one.
enum_serialize_one_based(T, v) ==
    LET fields == T.args[v.variant + 1]
    IN  build_serialize_body(fields, FALSE,
                             variant_names_match(fields, v.fields), 1,
                             <<v.variant + 1>>)

\* The generated serialize of an enum: a value is [variant, fields], with
\* variant the zero-based position of the variant it holds.
enum_serialize(T, v) ==
    LET fields == T.args[v.variant + 1]
    IN  build_serialize_body(fields, FALSE,
                             variant_names_match(fields, v.fields), 1,
                             <<v.variant>>)

serialize(T, v) ==
    CASE T.kind \in Unsigned -> uint_serialize(v, Width(T.kind))
      [] T.kind \in Signed -> int_serialize(v, Width(T.kind))
      [] T.kind \in Float -> float_serialize(v, Width(T.kind))
      [] T.kind = "bool" -> bool_serialize(v)
      [] T.kind = "String" -> string_serialize(v)
      [] T.kind = "SocketAddr" -> socketaddr_serialize(v)
      [] T.kind = "SystemTime" -> systemtime_serialize(v)
      [] T.kind = "Vec" -> vec_serialize(T.args[1], v)
      [] T.kind = "Array" -> array_serialize(T.args[1], v)
      [] T.kind = "Option" -> option_serialize(T.args[1], v)
      [] T.kind = "Struct" -> struct_serialize(T, v)
      [] T.kind = "Enum" -> enum_serialize(T, v)

-----------------------------------------------------------------------------
(* deserialize, by type.  b is the build: whether integer overflow is      *)
(* checked (debug) or wraps (release), and what dropping a value that was  *)
(* never initialized does ("benign": nothing, "fault": it frees a wild     *)
(* pointer).                                                               *)

\* std::mem::needs_drop::<T>(): T owns heap memory, directly or in a field.
RECURSIVE needs_drop(_)
needs_drop(T) ==
    CASE T.kind \in {"String", "Vec"} -> TRUE
      [] T.kind = "Array" -> T.n > 0 /\ needs_drop(T.args[1])
      [] T.kind \in {"Option", "Struct", "Enum", "Fields"} ->
            \E i \in 1..Len(T.args) : needs_drop(T.args[i])
      [] OTHER -> FALSE

RECURSIVE deserialize(_, _, _)
RECURSIVE vec_loop(_, _, _, _, _, _, _)
RECURSIVE array_loop(_, _, _, _, _, _, _)
RECURSIVE build_deserialize_body(_, _, _, _, _, _)

\* for _ in 0..len { T::deserialize(&data[read..])?; ret.push; read += }
vec_loop(T, len, d, b, i, ret, read) ==
    IF ~NatLt(i, len) THEN Ok(ret, read, i)
    ELSE IF read > Len(d) THEN Panic(SliceStart, i)
    ELSE LET r == deserialize(T, SliceFrom(d, read), b)
         IN  IF r.tag # "Ok" THEN [r EXCEPT !.calls = i + 1]
             ELSE vec_loop(T, len, d, b, i + 1, Append(ret, r.val), read + r.read)

\* <Vec<T> as Serializable>::deserialize.
vec_deserialize(T, d, b) ==
    IF Len(d) < 4 THEN Err(InvalidDataLength, 0)
    ELSE vec_loop(T, from_be_bytes(SubSeq(d, 1, 4), 4), d, b, 0, <<>>, 4)

\* <[T; L] as Serializable>::deserialize.  ret starts uninitialized
\* (MaybeUninit::uninit().assume_init()).  ret[i] = item drops the old,
\* uninitialized ret[i]; an early return by ? drops ret, whose slots from i
\* on are uninitialized.  Both are undefined behaviour when T needs drop.
array_loop(T, L, d, b, i, ret, offset) ==
    IF i >= L THEN Ok(ret, offset, i)
    ELSE IF offset > Len(d)
         THEN IF needs_drop(T) /\ b.uninit = "fault" THEN Fault(i)
              ELSE Panic(SliceStart, i)
    ELSE LET r == deserialize(T, SliceFrom(d, offset), b)
         IN  IF needs_drop(T) /\ b.uninit = "fault" THEN Fault(i + 1)
             ELSE IF r.tag # "Ok" THEN [r EXCEPT !.calls = i + 1]
             ELSE array_loop(T, L, d, b, i + 1, Append(ret, r.val),
                             offset + r.read)

array_deserialize(T, L, d, b) == array_loop(T, L, d, b, 0, <<>>, 0)

\* Mutation of option_deserialize: the tag byte is left out of the count.
option_deserialize_untagged(T, d, b) ==
    IF Len(d) < 1 THEN Err(InvalidDataLength, 0)
    ELSE IF d[1] = 0 THEN Ok(<<>>, 1, 0)
    ELSE IF d[1] = 1
         THEN LET r == deserialize(T, SliceFrom(d, 1), b)
              IN  IF r.tag # "Ok" THEN [r EXCEPT !.calls = 1]
                  ELSE Ok(<<r.val>>, r.read, 1)
    ELSE Err(InvalidOptionType, 0)

\* <Option<T> as Serializable>::deserialize.
option_deserialize(T, d, b) ==
    IF Len(d) < 1 THEN Err(InvalidDataLength, 0)
    ELSE IF d[1] = 0 THEN Ok(<<>>, 1, 0)
    ELSE IF d[1] = 1
         THEN LET r == deserialize(T, SliceFrom(d, 1), b)
              IN  IF r.tag # "Ok" THEN [r EXCEPT !.calls = 1]
                  ELSE Ok(<<r.val>>, r.read + 1, 1)
    ELSE Err(InvalidOptionType, 0)

\* #(let (name, len) = <ty>::deserialize(&bytes[offset..])?; offset += len;)*
\* from field i on; binds maps the names bound so far to their values.
build_deserialize_body(fields, bytes_, offset, i, binds, b) ==
    IF fields.shape = "Unit" \/ i > Len(get_field_names(fields))
    THEN Ok(binds, offset, i - 1)
    ELSE IF offset > Len(bytes_) THEN Panic(SliceStart, i - 1)
    ELSE LET r == deserialize(get_field_types(fields)[i],
                              SliceFrom(bytes_, offset), b)
         IN  IF r.tag # "Ok" THEN [r EXCEPT !.calls = i]
             ELSE build_deserialize_body(fields, bytes_, offset + r.read, i + 1,
                      (get_field_names(fields)[i] :> r.val) @@ binds, b)

\* The generated deserialize of a struct.
struct_deserialize(T, bytes_, b) ==
    LET r == build_deserialize_body(T, bytes_, 0, 1, NoBinds, b)
    IN  IF r.tag # "Ok" THEN r
        ELSE Ok(build_constructor(T, r.val), r.read, r.calls)

\* Mutation of enum_deserialize: the discriminant is taken modulo the
\* number of variants, with no catch-all arm.
enum_deserialize_wrapping(T, bytes_, b) ==
    IF Len(bytes_) = 0 THEN Err(InvalidDataSize, 0)
    ELSE LET variant_index == bytes_[1] % Len(T.args)
             fields == T.args[variant_index + 1]
             r == build_deserialize_body(fields, bytes_, 1, 1, NoBinds, b)
         IN  IF r.tag # "Ok" THEN r
             ELSE Ok([variant |-> variant_index,
                      fields |-> build_constructor(fields, r.val)],
                     r.read, r.calls)

\* The generated deserialize of an enum.
enum_deserialize(T, bytes_, b) ==
    IF Len(bytes_) = 0 THEN Err(InvalidDataSize, 0)
    ELSE LET variant_index == bytes_[1]
         IN  IF variant_index < Len(T.args)
             THEN LET fields == T.args[variant_index + 1]
                      r == build_deserialize_body(fields, bytes_, 1, 1, NoBinds, b)
                  IN  IF r.tag # "Ok" THEN r
                      ELSE Ok([variant |-> variant_index,
                               fields |-> build_constructor(fields, r.val)],
                              r.read, r.calls)
             ELSE Err(InvalidVariantIndex, 0)

deserialize(T, d, b) ==
    CASE T.kind \in Unsigned -> uint_deserialize(d, Width(T.kind))
      [] T.kind \in Signed -> int_deserialize(d, Width(T.kind))
      [] T.kind \in Float -> float_deserialize(d, Width(T.kind))
      [] T.kind = "bool" -> bool_deserialize(d)
      [] T.kind = "String" -> string_deserialize(d, b)
      [] T.kind = "SocketAddr" -> socketaddr_deserialize(d)
      [] T.kind = "SystemTime" -> systemtime_deserialize(d)
      [] T.kind = "Vec" -> vec_deserialize(T.args[1], d, b)
      [] T.kind = "Array" -> array_deserialize(T.args[1], T.n, d, b)
      [] T.kind = "Option" -> option_deserialize(T.args[1], d, b)
      [] T.kind = "Struct" -> struct_deserialize(T, d, b)
      [] T.kind = "Enum" -> enum_deserialize(T, d, b)

-----------------------------------------------------------------------------
(* The types under test: every impl of src/src/serializable.rs, the derived *)
(* types of the crate's tests, and small derived types of each shape.      *)

U8 == Prim("u8")

U16 == Prim("u16")

U32 == Prim("u32")

Bool == Prim("bool")

String == Prim("String")

SocketAddr == Prim("SocketAddr")

SystemTime == Prim("SystemTime")

NamedTestStruct == StructOf(Named(<<"a", "b", "c">>, <<U32, U16, String>>))

UnnamedTestStruct == StructOf(Unnamed(<<U32, U16, String>>))

UnitTestStruct == StructOf(Unit)

TestEnum ==
    EnumOf(<<Unnamed(<<U32>>), Unnamed(<<U16>>), Unnamed(<<String>>), Unit,
             Named(<<"f", "g", "h">>, <<U32, U16, String>>)>>)

TestStructWithVec == StructOf(Named(<<"a", "b", "c">>, <<U32, U16, VecOf(U8)>>))

\* struct Flags { on: bool, level: u8 } and struct Pair(bool, Option<u8>).
Flags == StructOf(Named(<<"on", "level">>, <<Bool, U8>>))

Pair == StructOf(Unnamed(<<Bool, OptionOf(U8)>>))

\* enum Small { X, Y(bool), Z { p: u8, q: bool } }.
Small == EnumOf(<<Unit, Unnamed(<<Bool>>), Named(<<"p", "q">>, <<U8, Bool>>)>>)

PrimTypes == {Prim(k) : k \in Unsigned \cup Signed \cup Float \cup {"bool"}}

Types ==
    PrimTypes \cup
    {String, SocketAddr, SystemTime,
     VecOf(U8), VecOf(String), VecOf(Bool),
     ArrayOf(U8, 2), ArrayOf(String, 2), ArrayOf(Bool, 0),
     OptionOf(U8), OptionOf(String), OptionOf(OptionOf(Bool)),
     NamedTestStruct, UnnamedTestStruct, UnitTestStruct, TestEnum,
     TestStructWithVec, Flags, Pair, Small}

\* Sample values: Values(T) lists the values of type T a caller serializes.
Pos(m) == [neg |-> FALSE, mag |-> m]

Minus(m) == [neg |-> TRUE, mag |-> m]

Hello == <<72, 101, 108, 108, 111, 32, 119, 111, 114, 108, 100>>

Strings == <<<<>>, <<97>>, <<195, 169>>, Hello>>

X12345678 == <<22136, 4660>>

X9ABC == <<39612>>

UintValues(W) ==
    <<Zero(W), [j \in 1..Limbs(W) |-> LimbMod(W) - 1],
      [j \in 1..Limbs(W) |-> (257 * j) % LimbMod(W)]>>
    \o (IF W = 4 THEN <<X12345678>> ELSE <<>>)
    \o (IF W = 2 THEN <<X9ABC>> ELSE <<>>)

\* Zero, 1, the largest, -1, the smallest, and a mixed pattern of each sign.
IntValues(W) ==
    <<Pos(Zero(W)), Pos(AsLimbs(1, W)), Minus(AsLimbs(1, W)),
     Pos([j \in 1..Limbs(W) |->
            IF j = Limbs(W) THEN LimbMod(W) \div 2 - 1 ELSE LimbMod(W) - 1]),
     Minus([j \in 1..Limbs(W) |->
            IF j = Limbs(W) THEN LimbMod(W) \div 2 ELSE 0]),
     Pos([j \in 1..Limbs(W) |-> (3 * j + 1) % 128]),
     Minus([j \in 1..Limbs(W) |-> (5 * j + 2) % 128])>>

\* 0.0, 1.0, -0.0, a NaN.
FloatValues(W) ==
    IF W = 4 THEN <<Zero(4), <<0, 16256>>, <<0, 32768>>, <<0, 32704>>>>
    ELSE <<Zero(8), <<0, 0, 0, 16368>>, <<0, 0, 0, 32768>>, <<0, 0, 0, 32760>>>>

V4(ip, port) ==
    [fam |-> "V4", ip |-> ip, port |-> port, flowinfo |-> 0, scope_id |-> 0]

V6(ip, port, flowinfo, scope_id) ==
    [fam |-> "V6", ip |-> ip, port |-> port, flowinfo |-> flowinfo,
     scope_id |-> scope_id]

Loopback6 == [i \in 1..16 |-> IF i = 16 THEN 1 ELSE 0]

LinkLocal6 == [i \in 1..16 |-> IF i = 1 THEN 254 ELSE IF i = 2 THEN 128 ELSE i]

SocketAddrs ==
    <<V4(<<127, 0, 0, 1>>, <<8080>>), V4(<<0, 0, 0, 0>>, <<0>>),
     V6(Loopback6, <<443>>, 0, 0), V6(LinkLocal6, <<65535>>, 0, 0),
     V6(LinkLocal6, <<8080>>, 0, 2)>>

\* 1700000000 seconds after the epoch.
Secs2023 == <<61696, 25939, 0, 0>>

SystemTimes ==
    <<[secs |-> Pos(Zero(8)), nanos |-> 0],
     [secs |-> Pos(Secs2023), nanos |-> 0],
     [secs |-> Pos(Secs2023), nanos |-> 500000000],
     [secs |-> Minus(AsLimbs(1, 8)), nanos |-> 0]>>

Values(T) ==
    CASE T.kind \in Unsigned -> UintValues(Width(T.kind))
      [] T.kind \in Signed -> IntValues(Width(T.kind))
      [] T.kind \in Float -> FloatValues(Width(T.kind))
      [] T = Bool -> <<TRUE, FALSE>>
      [] T = String -> Strings
      [] T = SocketAddr -> SocketAddrs
      [] T = SystemTime -> SystemTimes
      [] T = VecOf(U8) -> <<<<>>, <<<<7>>>>, [i \in 1..9 |-> <<i>>]>>
      [] T = VecOf(String) -> <<<<>>, <<<<97>>>>, <<<<>>, Hello>>>>
      [] T = VecOf(Bool) -> <<<<>>, <<TRUE, FALSE>>>>
      [] T = ArrayOf(U8, 2) -> <<<<<<1>>, <<2>>>>, <<<<255>>, <<0>>>>>>
      [] T = ArrayOf(String, 2) -> <<<<<<>>, <<>>>>, <<<<97>>, <<195, 169>>>>>>
      [] T = ArrayOf(Bool, 0) -> <<<<>>>>
      [] T = OptionOf(U8) -> <<<<>>, <<<<0>>>>, <<<<200>>>>>>
      [] T = OptionOf(String) -> <<<<>>, <<<<>>>>, <<<<97>>>>>>
      [] T = OptionOf(OptionOf(Bool)) -> <<<<>>, <<<<>>>>, <<<<TRUE>>>>>>
      [] T = NamedTestStruct ->
            <<[a |-> X12345678, b |-> X9ABC, c |-> Hello],
             [a |-> Zero(4), b |-> Zero(2), c |-> <<>>]>>
      [] T = UnnamedTestStruct ->
            <<<<X12345678, X9ABC, Hello>>, <<Zero(4), Zero(2), <<>>>>>>
      [] T = UnitTestStruct -> <<<<>>>>
      [] T = TestEnum ->
            <<[variant |-> 0, fields |-> <<X12345678>>],
             [variant |-> 1, fields |-> <<X9ABC>>],
             [variant |-> 2, fields |-> <<Hello>>],
             [variant |-> 3, fields |-> <<>>],
             [variant |-> 4, fields |-> [f |-> X12345678, g |-> X9ABC, h |-> <<97>>]]>>
      [] T = TestStructWithVec ->
            <<[a |-> X12345678, b |-> X9ABC, c |-> [i \in 1..9 |-> <<i>>]]>>
      [] T = Flags -> <<[on |-> TRUE, level |-> <<3>>], [on |-> FALSE, level |-> <<0>>]>>
      [] T = Pair -> <<<<TRUE, <<>>>>, <<FALSE, <<<<9>>>>>>>>
      [] T = Small ->
            <<[variant |-> 0, fields |-> <<>>],
             [variant |-> 1, fields |-> <<TRUE>>],
             [variant |-> 2, fields |-> [p |-> <<1>>, q |-> FALSE]]>>

\* The bytes raw windows, trailing bytes and patches are made of.
ByteSample == {0, 1, 2, 255}

RECURSIVE SeqsUpTo(_, _)
SeqsUpTo(S, n) ==
    IF n = 0 THEN {<<>>}
    ELSE LET shorter == SeqsUpTo(S, n - 1)
         IN  shorter \cup {Append(w, x) : w \in {u \in shorter : Len(u) = n - 1}, x \in S}

Windows == SeqsUpTo(ByteSample, MaxWin)

Tails == SeqsUpTo(ByteSample, MaxTail)

\* The bytes one byte of an encoding is replaced by.
PatchSample == ByteSample \cup {3, 5, 128, 252}

Builds == [overflow_checks : BOOLEAN, uninit : {"benign", "fault"}]

-----------------------------------------------------------------------------
(* The state machine: a caller picks a type, then either serializes a      *)
(* value and deserializes the encoding (as is or with trailing bytes, a    *)
(* prefix of it, or with one byte replaced), or deserializes a raw window. *)

NoRes == [tag |-> "None", val |-> <<>>, read |-> 0, msg |-> "", calls |-> 0]

Init ==
    /\ ty \in Types
    /\ build \in Builds
    /\ val = <<>>
    /\ bytes = <<>>
    /\ data = <<>>
    /\ res = NoRes
    /\ pc = "start"

Serialize ==
    /\ pc = "start"
    /\ \E k \in 1..Len(Values(ty)) :
          LET v == Values(ty)[k]
              r == serialize(ty, v)
          IN  /\ val' = v
              /\ bytes' = r.out
              /\ pc' = IF r.tag = "Ok" THEN "serialized" ELSE "panicked"
    /\ UNCHANGED <<ty, data, res, build>>

DeserializeWindow ==
    /\ pc = "start"
    /\ \E w \in Windows :
          /\ data' = w
          /\ res' = deserialize(ty, w, build)
    /\ pc' = "window"
    /\ UNCHANGED <<ty, val, bytes, build>>

DeserializeEncoded ==
    /\ pc = "serialized"
    /\ \E t \in Tails :
          /\ data' = bytes \o t
          /\ res' = deserialize(ty, bytes \o t, build)
    /\ pc' = "encoded"
    /\ UNCHANGED <<ty, val, bytes, build>>

DeserializePrefix ==
    /\ pc = "serialized"
    /\ \E n \in 0..(Len(bytes) - 1) :
          /\ data' = SubSeq(bytes, 1, n)
          /\ res' = deserialize(ty, SubSeq(bytes, 1, n), build)
    /\ pc' = "prefix"
    /\ UNCHANGED <<ty, val, bytes, build>>

DeserializePatched ==
    /\ pc = "serialized"
    /\ \E p \in 1..Len(bytes), x \in PatchSample :
          /\ data' = [bytes EXCEPT ![p] = x]
          /\ res' = deserialize(ty, [bytes EXCEPT ![p] = x], build)
    /\ pc' = "patched"
    /\ UNCHANGED <<ty, val, bytes, build>>

Next ==
    \/ Serialize
    \/ DeserializeWindow
    \/ DeserializeEncoded
    \/ DeserializePrefix
    \/ DeserializePatched

Spec == Init /\ [][Next]_vars

-----------------------------------------------------------------------------
(* Properties. *)

Decoded == pc \in {"window", "encoded", "prefix", "patched"}

LengthError == {InvalidDataLength, InvalidDataSize}

\* C1: round-trip law: deserialize(serialize(v)) returns Ok((v, n)) with n
\* the length of serialize(v), for every value of every supported type.
C1_RoundTrip ==
    (pc = "encoded" /\ data = bytes) =>
        /\ res.tag = "Ok"
        /\ res.val = val
        /\ res.read = Len(bytes)

\* C2: trailing bytes are ignored: deserialize(serialize(v) ++ t) returns
\* Ok((v, len(serialize(v)))) whatever the trailing bytes t are.
C2_TrailingIgnored ==
    pc = "encoded" =>
        \E t \in Tails :
            /\ data = bytes \o t
            /\ res.tag = "Ok"
            /\ res.val = val
            /\ res.read = Len(data) - Len(t)

\* C3: exact consumption: whenever deserialize returns Ok((v, n)), n is at
\* most the length of the window and equals the length of serialize(v); and
\* no decoder slices its window at a running offset beyond the window's end.
C3_ExactConsumption ==
    Decoded =>
        /\ res.tag = "Ok" =>
              /\ res.read <= Len(data)
              /\ serialize(ty, res.val).tag = "Ok"
              /\ res.read = Len(serialize(ty, res.val).out)
        /\ res.msg # SliceStart

\* C3 witness: a nested decoder returned Ok on a window with bytes to spare.
C3_Witness ==
    /\ pc = "window"
    /\ ty = Pair
    /\ res.tag = "Ok"
    /\ res.read = 3
    /\ Len(data) = 5

\* C4: truncation safety: deserialize of a proper non-empty prefix of
\* serialize(v) returns the truncated-input error: no panic, no Ok.
C4_TruncationSafety ==
    (pc = "prefix" /\ data # <<>>) =>
        /\ res.tag = "Err"
        /\ res.msg \in LengthError

\* The states in which bytes holds serialize(ty, val).
Serialized == pc \in {"serialized", "encoded", "prefix", "patched"}

\* Field i of a struct value, or of a variant's fields, by declaration.
FieldValue(fields, v, i) ==
    IF fields.shape = "Named" THEN v[fields.names[i]] ELSE v[i]

\* The encodings of fields i.. of v, one after the other.
RECURSIVE FieldsConcat(_, _, _)
FieldsConcat(fields, v, i) ==
    IF i > Len(fields.args) THEN <<>>
    ELSE serialize(fields.args[i], FieldValue(fields, v, i)).out
         \o FieldsConcat(fields, v, i + 1)

\* C5: discriminant validation in a derived enum with k variants: an empty
\* window is a length error; a first byte d >= k is an invalid-discriminant
\* error and no field is decoded; Ok only when d < k, and then the value is
\* the variant at declared position d.
C5_DiscriminantValidation ==
    (Decoded /\ ty.kind = "Enum") =>
        LET k == Len(ty.args)
        IN  /\ data = <<>> =>
                  /\ res.tag = "Err"
                  /\ res.msg \in LengthError
                  /\ res.calls = 0
            /\ (data # <<>> /\ data[1] >= k) =>
                  /\ res.tag = "Err"
                  /\ res.msg = InvalidVariantIndex
                  /\ res.calls = 0
            /\ res.tag = "Ok" =>
                  /\ data # <<>>
                  /\ data[1] < k
                  /\ res.val.variant = data[1]
                  /\ LET fields == ty.args[data[1] + 1]
                     IN  CASE fields.shape = "Named" ->
                                DOMAIN res.val.fields =
                                    {fields.names[i] : i \in 1..Len(fields.names)}
                           [] fields.shape = "Unnamed" ->
                                Len(res.val.fields) = Len(fields.args)
                           [] fields.shape = "Unit" -> res.val.fields = <<>>

\* C5 witness: the discriminant equals the variant count, with bytes after it.
C5_Witness ==
    /\ pc = "patched"
    /\ ty = TestEnum
    /\ Len(data) > 1
    /\ data[1] = 5
    /\ res.msg = InvalidVariantIndex

NamedExample == [a |-> X12345678, b |-> X9ABC, c |-> Hello]

ExampleBytes == <<18, 52, 86, 120, 154, 188, 0, 0, 0, 11>> \o Hello

\* C6: record layout: serialize of a derived struct is the concatenation of
\* its fields' encodings in declared order, with nothing added; a unit
\* struct serializes to zero bytes and deserializes consuming 0 bytes; a
\* named and a positional struct of the same fields give the same bytes;
\* (0x12345678, 0x9ABC, "Hello world") gives the 21 bytes of the example.
C6_RecordLayout ==
    /\ (Serialized /\ ty.kind = "Struct") => bytes = FieldsConcat(ty, val, 1)
    /\ (Serialized /\ ty = UnitTestStruct) => bytes = <<>>
    /\ (Decoded /\ ty = UnitTestStruct) =>
          /\ res.tag = "Ok"
          /\ res.val = <<>>
          /\ res.read = 0
    /\ (Serialized /\ ty = NamedTestStruct) =>
          bytes = serialize(UnnamedTestStruct, <<val.a, val.b, val.c>>).out
    /\ (Serialized /\ ty = UnnamedTestStruct) =>
          bytes = serialize(NamedTestStruct,
                            [a |-> val[1], b |-> val[2], c |-> val[3]]).out
    /\ (Serialized /\ ty = NamedTestStruct /\ val = NamedExample) =>
          bytes = ExampleBytes /\ Len(bytes) = 21

\* C6 witness: the named struct of the example has been serialized.
C6_Witness ==
    /\ pc = "serialized"
    /\ ty = NamedTestStruct
    /\ val = NamedExample
    /\ Len(bytes) = 21

Denoted(bs, W) ==
    [j \in 1..Limbs(W) |->
        IF W = 1 THEN bs[1] ELSE 256 * bs[W - 2 * j + 1] + bs[W - 2 * j + 2]]

\* The W-byte pattern u is that of the value v of the primitive type kind k:
\* v itself for an unsigned integer or a float, and for a signed integer the
\* two's complement: u = v when v >= 0, u + |v| = 2^(8W) when v < 0.
PatternOf(k, u, v, W) ==
    IF k \in Signed
    THEN IF v.neg
         THEN /\ TopBit(u, W)
              /\ Add(u, v.mag, W) = [sum |-> Zero(W), carry |-> 1]
         ELSE ~TopBit(u, W) /\ u = v.mag
    ELSE u = v

\* C8: fixed-width primitives: serialize of an integer or float of width W
\* is exactly W bytes, big-endian (two's complement when signed); deserialize
\* of fewer than W bytes is a length error, and of at least W bytes is the
\* value the first W bytes denote, with W consumed; bool is the byte 0 or 1,
\* and a first byte outside {0, 1} is an error.
C8_FixedWidth ==
    /\ (ty \in PrimTypes /\ ty # Bool) =>
          LET W == Width(ty.kind)
          IN  /\ Serialized =>
                    /\ Len(bytes) = W
                    /\ PatternOf(ty.kind, Denoted(bytes, W), val, W)
              /\ (Decoded /\ Len(data) < W) =>
                    /\ res.tag = "Err"
                    /\ res.msg = InvalidDataLength
              /\ (Decoded /\ Len(data) >= W) =>
                    /\ res.tag = "Ok"
                    /\ res.read = W
                    /\ \E u \in {Denoted(SubSeq(data, 1, W), W)} :
                          /\ \A k \in 0..(W - 1) : ByteOf(u, k) = data[W - k]
                          /\ PatternOf(ty.kind, u, res.val, W)
    /\ ty = Bool =>
          /\ Serialized => bytes = <<IF val THEN 1 ELSE 0>>
          /\ (Decoded /\ data = <<>>) =>
                res.tag = "Err" /\ res.msg = InvalidDataLength
          /\ (Decoded /\ data # <<>> /\ data[1] \notin {0, 1}) => res.tag = "Err"
          /\ (Decoded /\ data # <<>> /\ data[1] \in {0, 1}) =>
                /\ res.tag = "Ok"
                /\ res.val = (data[1] = 1)
                /\ res.read = 1

\* C8 witness: a negative i64 was serialized and decoded from a window
\* longer than its 8 bytes.
C8_Witness ==
    /\ pc = "encoded"
    /\ ty = Prim("i64")
    /\ val.neg
    /\ Len(data) > 8
    /\ res.tag = "Ok"

\* The constituent decoders a composite decoder runs on the window d: whether
\* there is an i-th one, its type, and the offset of the first.
HasConstituent(T, d, i) ==
    CASE T.kind = "Vec" ->
            Len(d) >= 4 /\ NatLt(i - 1, Denoted(SubSeq(d, 1, 4), 4))
      [] T.kind = "Array" -> i <= T.n
      [] T.kind = "Option" -> Len(d) >= 1 /\ d[1] = 1 /\ i = 1
      [] T.kind = "Struct" -> i <= Len(T.args)
      [] T.kind = "Enum" ->
            /\ Len(d) >= 1
            /\ d[1] < Len(T.args)
            /\ i <= Len(T.args[d[1] + 1].args)

ConstituentType(T, d, i) ==
    CASE T.kind \in {"Vec", "Array", "Option"} -> T.args[1]
      [] T.kind = "Struct" -> T.args[i]
      [] T.kind = "Enum" -> T.args[d[1] + 1].args[i]

FirstOffset(T) ==
    CASE T.kind = "Vec" -> 4
      [] T.kind \in {"Option", "Enum"} -> 1
      [] T.kind \in {"Array", "Struct"} -> 0

\* The outcome of the first constituent decoder that does not return Ok,
\* with calls its position; NoRes when each returns Ok.
RECURSIVE FirstFailure(_, _, _, _, _)
FirstFailure(T, d, b, i, off) ==
    IF ~HasConstituent(T, d, i) THEN NoRes
    ELSE LET r == deserialize(ConstituentType(T, d, i), SliceFrom(d, off), b)
         IN  IF r.tag # "Ok" THEN [r EXCEPT !.calls = i]
             ELSE FirstFailure(T, d, b, i + 1, off + r.read)

Composite == {"Vec", "Array", "Option", "Struct", "Enum"}

\* C9: first-error propagation: when the j-th constituent decoder a
\* composite invokes is the first to fail, the composite returns exactly
\* that error, decodes no later constituent and returns no value.
C9_FirstError ==
    (Decoded /\ ty.kind \in Composite) =>
        LET f == FirstFailure(ty, data, build, 1, FirstOffset(ty))
        IN  f.tag = "Err" =>
                /\ res.tag = "Err"
                /\ res.msg = f.msg
                /\ res.calls = f.calls
                /\ res.val = <<>>

\* C10: String decode length check: on a window of at least 4 bytes whose
\* declared length L exceeds the bytes after the length field, deserialize
\* returns an error (no panic, whatever L + 4 is in 32 bits); when L fits,
\* the result is Ok consuming L + 4 iff the L bytes are valid UTF-8, and the
\* invalid-text error otherwise.
C10_StringLengthCheck ==
    (Decoded /\ ty = String /\ Len(data) >= 4) =>
        LET L == Denoted(SubSeq(data, 1, 4), 4)
        IN  IF NatLt(Len(data) - 4, L)
            THEN res.tag = "Err"
            ELSE IF from_utf8(SubSeq(data, 5, 4 + AsNat(L)))
                 THEN /\ res.tag = "Ok"
                      /\ res.val = SubSeq(data, 5, 4 + AsNat(L))
                      /\ res.read = AsNat(L) + 4
                 ELSE res.tag = "Err" /\ res.msg = InvalidUtf8

\* The values and the end offset of n consecutive element decodes of type T
\* on d from offset off on, each narrowing the window by what it consumed.
RECURSIVE ElementRun(_, _, _, _, _, _)
ElementRun(T, d, b, n, off, vals) ==
    IF n = 0 THEN [vals |-> vals, off |-> off]
    ELSE LET r == deserialize(T, SliceFrom(d, off), b)
         IN  ElementRun(T, d, b, n - 1, off + r.read, Append(vals, r.val))

\* The encodings of items i.. of a sequence, one after the other.
RECURSIVE ItemsConcat(_, _, _)
ItemsConcat(T, items, i) ==
    IF i > Len(items) THEN <<>>
    ELSE serialize(T, items[i]).out \o ItemsConcat(T, items, i + 1)

\* The number of elements a sequence decoder is to decode from d: the
\* declared count of a Vec, L of a [T; L].
DeclaredCount(T, d) ==
    IF T.kind = "Vec" THEN Denoted(SubSeq(d, 1, 4), 4) ELSE AsLimbs(T.n, 4)

\* C11: sequence framing: Vec<T>::serialize is the 4-byte big-endian number
\* of elements followed by each element's encoding in order (9 one-byte
\* elements give 00 00 00 09 and the 9 bytes); Vec<T>::deserialize with
\* declared count c runs T's decoder exactly c times on successively
\* narrowed windows and returns c elements, consuming 4 plus the elements'
\* lengths, or returns the element decoder's error when the window runs
\* short first; [T; L] does the same with L for c and no count.
C11_SequenceFraming ==
    /\ (Serialized /\ ty.kind = "Vec") =>
          bytes = to_be_bytes(AsLimbs(Len(val), 4), 4)
                  \o ItemsConcat(ty.args[1], val, 1)
    /\ (Serialized /\ ty.kind = "Array") =>
          bytes = ItemsConcat(ty.args[1], val, 1)
    /\ (Serialized /\ ty = TestStructWithVec) =>
          SubSeq(bytes, 7, Len(bytes)) = <<0, 0, 0, 9, 1, 2, 3, 4, 5, 6, 7, 8, 9>>
    /\ (Decoded /\ ty.kind = "Vec" /\ Len(data) < 4) =>
          res.tag = "Err" /\ res.msg = InvalidDataLength
    /\ (Decoded /\ (ty.kind = "Array" \/ (ty.kind = "Vec" /\ Len(data) >= 4))) =>
          LET c == DeclaredCount(ty, data)
              f == FirstFailure(ty, data, build, 1, FirstOffset(ty))
          IN  IF f.tag = "None"
              THEN LET run == ElementRun(ty.args[1], data, build, AsNat(c),
                                         FirstOffset(ty), <<>>)
                   IN  /\ res.tag = "Ok"
                       /\ res.calls = AsNat(c)
                       /\ Len(res.val) = AsNat(c)
                       /\ res.val = run.vals
                       /\ res.read = run.off
              ELSE /\ res.tag = "Err"
                   /\ res.msg = f.msg
                   /\ res.calls = f.calls
                   /\ NatLt(f.calls - 1, c)

\* The two bytes of a port, most significant first.
PortBytes(port) == <<port[1] \div 256, port[1] % 256>>

\* C12: network-address codec: serialize of a V4 address is exactly 7 bytes
\* (family byte 0, the 4 octets, the port big-endian) and of a V6 address
\* exactly 19 (family byte 1, the 16 octets, the port big-endian);
\* deserialize returns a length error on an empty window and on fewer than
\* 7 (family 0) or 19 (family 1) bytes, the invalid-address-type error for
\* any other family byte, and otherwise the address, consuming 7 or 19.
C12_SocketAddrCodec ==
    ty = SocketAddr =>
        /\ Serialized =>
              /\ val.fam = "V4" =>
                    /\ Len(val.ip) = 4
                    /\ Len(bytes) = 7
                    /\ bytes = <<0>> \o val.ip \o PortBytes(val.port)
              /\ val.fam = "V6" =>
                    /\ Len(val.ip) = 16
                    /\ Len(bytes) = 19
                    /\ bytes = <<1>> \o val.ip \o PortBytes(val.port)
        /\ Decoded =>
              IF data = <<>>
              THEN res.tag = "Err" /\ res.msg = InvalidDataLength
              ELSE IF data[1] \notin {0, 1}
              THEN res.tag = "Err" /\ res.msg = InvalidAddressType
              ELSE LET n == IF data[1] = 0 THEN 7 ELSE 19
                   IN  IF Len(data) < n
                       THEN res.tag = "Err" /\ res.msg = InvalidDataLength
                       ELSE /\ res.tag = "Ok"
                            /\ res.read = n
                            /\ res.val.fam = (IF data[1] = 0 THEN "V4" ELSE "V6")
                            /\ res.val.ip = SubSeq(data, 2, n - 2)
                            /\ PortBytes(res.val.port) = SubSeq(data, n - 1, n)

\* C12 witness: the encoding of a V6 address came back with a family byte
\* that is neither 0 nor 1 and was refused.
C12_Witness ==
    /\ pc = "patched"
    /\ ty = SocketAddr
    /\ val.fam = "V6"
    /\ Len(data) = 19
    /\ data[1] = 255
    /\ res.tag = "Err"
    /\ res.msg = InvalidAddressType

\* C13: timestamp codec: serialize of a SystemTime is exactly the 8-byte
\* big-endian count of whole seconds since the epoch; deserialize of a
\* window of at least 8 bytes returns epoch + that many seconds, consuming
\* 8, or the invalid-time error when that instant is not representable;
\* serialize and deserialize never panic: each returns a value or an error.
C13_TimestampCodec ==
    ty = SystemTime =>
        /\ pc # "panicked"
        /\ Serialized =>
              /\ Len(bytes) = 8
              /\ ~val.secs.neg
              /\ Denoted(bytes, 8) = val.secs.mag
        /\ Decoded => res.tag \in {"Ok", "Err"}
        /\ (Decoded /\ Len(data) >= 8) =>
              LET secs == Denoted(SubSeq(data, 1, 8), 8)
              IN  IF TopBit(secs, 8)
                  THEN res.tag = "Err" /\ res.msg = InvalidTime
                  ELSE /\ res.tag = "Ok"
                       /\ res.val = [secs |-> Pos(secs), nanos |-> 0]
                       /\ res.read = 8

\* The slots of ret that [T; L]::deserialize destroys while they are still
\* uninitialized, from element i on: ret[i] = item drops the old ret[i],
\* which was never written; when T::deserialize does not return Ok, ? (or
\* the unwinding of a panic) drops ret, whose slots i.. were never written.
\* A type without drop glue has nothing to run in either place.
RECURSIVE uninit_drops(_, _, _, _, _, _)
uninit_drops(T, L, d, b, i, offset) ==
    IF ~needs_drop(T) \/ i >= L THEN 0
    ELSE LET r == deserialize(T, SliceFrom(d, offset), b)
         IN  IF r.tag # "Ok" THEN L - i
             ELSE 1 + uninit_drops(T, L, d, b, i + 1, offset + r.read)

\* C14: fixed-array partial-failure safety: [T; L]::deserialize, on the
\* success path and whatever the index at which the element decoder first
\* fails, never reads, overwrites-with-drop or drops an array slot that
\* still holds an uninitialized value.
C14_ArrayPartialFailure ==
    (Decoded /\ ty.kind = "Array") =>
        /\ uninit_drops(ty.args[1], ty.n, data, build, 0, 0) = 0
        /\ res.tag # "Fault"

\* C15: canonical encoding: whenever deserialize of a window returns
\* Ok((v, n)), serialize(v) is byte for byte the first n bytes of the
\* window; the decoder accepts no other form of a value: no bool or Option
\* tag and no address family other than 0 and 1, and no enum discriminant
\* out of range.
C15_CanonicalEncoding ==
    Decoded =>
        /\ res.tag = "Ok" =>
              /\ serialize(ty, res.val).tag = "Ok"
              /\ serialize(ty, res.val).out = SubSeq(data, 1, res.read)
        /\ (data # <<>> /\ ty.kind \in {"bool", "Option", "SocketAddr"}
                /\ data[1] \notin {0, 1}) => res.tag = "Err"
        /\ (data # <<>> /\ ty.kind = "Enum" /\ data[1] >= Len(ty.args)) =>
              res.tag = "Err"

\* C15 witness: a raw window decoded as Some(Some(true)) with bytes to
\* spare, so that the value's encoding is compared with a proper prefix.
C15_Witness ==
    /\ pc = "window"
    /\ ty = OptionOf(OptionOf(Bool))
    /\ res.tag = "Ok"
    /\ res.val = <<<<TRUE>>>>
    /\ res.read = 3
    /\ Len(data) = 5

=============================================================================
